---- MODULE Spec2Model ----
(***************************************************************************)
(* AsyncMemoryMonitor and MemTracerOpHook of                               *)
(* pytorchmemtracer/ophooks/_memtracer_ophook.py.                          *)
(*                                                                         *)
(* One caller thread issues the public operations; the monitor's           *)
(* ThreadPoolExecutor(max_workers=1) runs the submitted _measure_usage     *)
(* calls one at a time, in submission order, concurrently with the caller. *)
(***************************************************************************)
EXTENDS Integers, Sequences, FiniteSets

\* ---- bounds of the model -------------------------------------------------
MaxTasks == 2       \* futures submitted to the executor over one run
MaxUsage == 1       \* the provider returns a value in 0..MaxUsage, or raises
MaxClock == 1       \* time() returns a value in 0..MaxClock, never less
                    \* than the value it returned before
MaxPower == 0       \* set_interval is called with a power in 0..MaxPower
LateCap == 2        \* provider calls counted after the flag was cleared

\* ---- program constants ---------------------------------------------------
DefaultPower == 10  \* __init__(self, power=10)
\* mutant: the pool runs two work items at a time
MaxWorkersTwo == 1 + 1

MaxWorkers == 1     \* ThreadPoolExecutor(max_workers=1)

Tasks == 1..MaxTasks
Usages == 0..MaxUsage
None == 0           \* monitor_thread = None

VARIABLES
    keep_measuring,   \* self.keep_measuring
    monitor_thread,   \* self.monitor_thread: None or the future of a task
    interval,         \* self.interval = 10 ** e, kept as the exponent e
    time_stamps,      \* self.time_stamps
    mem_stats,        \* self.mem_stats
    work_queue,       \* the executor's queue of pending work items
    submitted,        \* number of futures the executor has handed out
    tpc,              \* per task: where its _measure_usage call stands
    max_usage,        \* per task: the local max_usage of _measure_usage
    now,              \* the last value read from the clock by time()
    cpc,              \* the caller: "idle" between operations, "result"
                      \* while blocked in monitor_thread.result()
    ev,               \* the caller operation in progress (out = "pending"),
                      \* or, as history, the one that has just returned,
                      \* with the state it was called in
    seen,             \* history: per task, the values the provider returned
    fetched           \* history: per task, how many result() calls handed
                      \* its outcome (value or exception) to the caller

vars == <<keep_measuring, monitor_thread, interval, time_stamps, mem_stats,
          work_queue, submitted, tpc, max_usage, now, cpc, ev, seen, fetched>>

monitor == <<keep_measuring, monitor_thread, interval, time_stamps, mem_stats>>
executor == <<work_queue, submitted, tpc, max_usage>>
history == <<seen, fetched>>

\* ---- pure helpers --------------------------------------------------------
Max2(a, b) == IF a >= b THEN a ELSE b

SetMax(S) == CHOOSE m \in S : \A x \in S : x <= m

\* mutant: the first element is taken for the minimum
SeqFirst(s) == s[1]

\* min(list) of a list that is not empty
RECURSIVE SeqMin(_)
SeqMin(s) ==
    IF Len(s) = 1 THEN s[1]
    ELSE LET m == SeqMin(Tail(s)) IN IF s[1] <= m THEN s[1] ELSE m

\* 1 / (10 ** power), kept as its decimal exponent: 10 ** (-power)
Interval(power) == 0 - power

\* futures that are PENDING or RUNNING
Live == {t \in Tasks : tpc[t] \in {"queued", "check", "sample"}}
Running == {t \in Tasks : tpc[t] \in {"check", "sample"}}
Finished(t) == tpc[t] \in {"done", "raised"}

\* ---- record of caller operations ------------------------------------------
\* the last caller operation to return was start() called on an Idle monitor
FreshStart(e) == (e.op = "start" /\ ~e.meas0) \/ (e.op = "quiet" /\ e.fresh)

\* the caller enters op: the state it is called in
Call(op, training) ==
    [op |-> op, training |-> training, meas0 |-> keep_measuring,
     len0 |-> Len(time_stamps), task0 |-> monitor_thread, sub0 |-> submitted,
     ts0 |-> time_stamps, ms0 |-> mem_stats, fresh |-> FreshStart(ev),
     out |-> "pending", val |-> 0, got |-> {}, late |-> 0]

Return(c, out, val) == [c EXCEPT !.out = out, !.val = val]

\* the operation returns val, the result of a task the provider gave the
\* values got
ReturnOf(c, out, val, got) == [c EXCEPT !.out = out, !.val = val, !.got = got]

Quiet(fresh) ==
    [op |-> "quiet", training |-> FALSE, meas0 |-> FALSE, len0 |-> 0,
     task0 |-> None, sub0 |-> 0, ts0 |-> <<>>, ms0 |-> <<>>, fresh |-> fresh,
     out |-> "none", val |-> 0, got |-> {}, late |-> 0]

\* a step of the worker ends the moment "the operation has just returned";
\* the record of a blocked operation stays
Forget(e) == IF e.out = "pending" THEN e ELSE Quiet(FreshStart(e))

\* history: one more provider call made while the caller is blocked in
\* result(), that is after finish() cleared the flag; counted up to LateCap
Late(e) ==
    IF e.out = "pending" /\ e.late < LateCap
    THEN [e EXCEPT !.late = @ + 1]
    ELSE Forget(e)

Init ==
    /\ keep_measuring = FALSE
    /\ monitor_thread = None
    /\ interval = Interval(DefaultPower)
    /\ time_stamps = <<>>
    /\ mem_stats = <<>>
    /\ work_queue = <<>>
    /\ submitted = 0
    /\ tpc = [t \in Tasks |-> "none"]
    /\ max_usage = [t \in Tasks |-> 0]
    /\ now = 0
    /\ cpc = "idle"
    /\ ev = Quiet(FALSE)
    /\ seen = [t \in Tasks |-> {}]
    /\ fetched = [t \in Tasks |-> 0]

\* ---- the executor's worker thread and _measure_usage ----------------------
\* the worker takes the oldest pending work item when it runs none, and
\* enters _measure_usage: max_usage = 0
worker_run(t) ==
    /\ work_queue # <<>>
    /\ t = Head(work_queue)
    /\ Cardinality(Running) < MaxWorkers
    /\ work_queue' = Tail(work_queue)
    /\ tpc' = [tpc EXCEPT ![t] = "check"]
    /\ max_usage' = [max_usage EXCEPT ![t] = 0]
    /\ ev' = Forget(ev)
    /\ UNCHANGED <<monitor, submitted, now, cpc, history>>

\* mutant: the loop never looks at the flag
LoopTestForever(flag) == "sample"

\* mutant: the loop runs while the flag is cleared
LoopTestInverted(flag) == IF flag THEN "done" ELSE "sample"

\* while self.keep_measuring: ... / return max_usage
LoopTest(flag) == IF flag THEN "sample" ELSE "done"

measure_check(t) ==
    /\ tpc[t] = "check"
    /\ tpc' = [tpc EXCEPT ![t] = LoopTest(keep_measuring)]
    /\ ev' = Forget(ev)
    /\ UNCHANGED <<monitor, work_queue, submitted, max_usage, now, cpc,
                   history>>

\* mutant: the last sample replaces the running maximum
RunningMaxLast(m, v) == v

\* max_usage = max(max_usage, get_sys_memory_used(dev))
\* sleep(self.interval)
RunningMax(m, v) == Max2(m, v)

measure_sample(t) ==
    /\ tpc[t] = "sample"
    /\ \E v \in Usages :
         /\ max_usage' = [max_usage EXCEPT ![t] = RunningMax(max_usage[t], v)]
         /\ seen' = [seen EXCEPT ![t] = seen[t] \cup {v}]
    /\ tpc' = [tpc EXCEPT ![t] = "check"]
    /\ ev' = Late(ev)
    /\ UNCHANGED <<monitor, work_queue, submitted, now, cpc, fetched>>

\* get_sys_memory_used raises: the exception leaves _measure_usage and the
\* executor stores it in the future
measure_raise(t) ==
    /\ tpc[t] = "sample"
    /\ tpc' = [tpc EXCEPT ![t] = "raised"]
    /\ ev' = Forget(ev)
    /\ UNCHANGED <<monitor, work_queue, submitted, max_usage, now, cpc,
                   history>>

\* ---- AsyncMemoryMonitor -------------------------------------------------
\* mutant: is_measuring() never reports an open session
is_measuring_never == FALSE

\* def is_measuring(self): return self.keep_measuring
is_measuring == keep_measuring

\* self.keep_measuring = True
\* self.monitor_thread = self.executor.submit(self._measure_usage)
StartBody ==
    LET t == submitted + 1 IN
    /\ keep_measuring' = TRUE
    /\ submitted' = t
    /\ tpc' = [tpc EXCEPT ![t] = "queued"]
    /\ work_queue' = Append(work_queue, t)
    /\ monitor_thread' = t

start ==
    /\ cpc = "idle"
    /\ submitted < MaxTasks
    /\ StartBody
    /\ ev' = Return(Call("start", TRUE), "none", 0)
    /\ UNCHANGED <<interval, time_stamps, mem_stats, max_usage, now, cpc,
                   history>>

\* mutant: the idle call hands back a value that is not zero
IdleReturnMinusOne == 0 - 1

\* if self.keep_measuring is False: return 0
IdleReturn == 0

\* mutant: the time stamp is appended before result() is called
FinishCallAppendFirst(c, kind) ==
    IF keep_measuring = FALSE
    THEN /\ ev' = Return(c, kind, IdleReturn)
         /\ UNCHANGED <<monitor, executor, now, cpc, history>>
    ELSE /\ keep_measuring' = FALSE
         /\ cpc' = "result"
         /\ ev' = c
         /\ time_stamps' = Append(time_stamps, now)
         /\ UNCHANGED <<monitor_thread, interval, mem_stats, executor, now,
                        history>>

\* finish() up to the call of self.monitor_thread.result(): the idle call
\* returns at once, the other clears the flag and blocks on the future.
\* c is the record of the caller operation that makes the call, kind the
\* kind of value that operation hands back when finish() returns.
FinishCall(c, kind) ==
    IF keep_measuring = FALSE
    THEN /\ ev' = Return(c, kind, IdleReturn)
         /\ UNCHANGED <<monitor, executor, now, cpc, history>>
    ELSE /\ keep_measuring' = FALSE
         /\ cpc' = "result"
         /\ ev' = c
         /\ UNCHANGED <<monitor_thread, interval, time_stamps, mem_stats,
                        executor, now, history>>

finish ==
    /\ cpc = "idle"
    /\ FinishCall(Call("finish", TRUE), "value")

\* mutant: the newest time stamp is put in front
AppendTimeFront(ts, t) == <<t>> \o ts

\* mutant: a time stamp equal to the last one recorded is not appended
AppendTimeDistinct(ts, t) ==
    IF ts # <<>> /\ ts[Len(ts)] = t THEN ts ELSE Append(ts, t)

\* mutant: a session whose maximum is 0 gets no usage entry
AppendStatNonzero(ms, u) == IF u = 0 THEN ms ELSE Append(ms, u)

\* self.time_stamps.append(time())
AppendTime(ts, t) == Append(ts, t)

\* self.mem_stats.append(max_usage)
AppendStat(ms, u) == Append(ms, u)

PreOps == {"pre_fwd_exec", "pre_bwd_exec"}

\* max_usage = self.monitor_thread.result() and the rest of finish(); then
\* the rest of the handler that called finish(): a pre handler goes on to
\* start(), every other caller returns.  result() re-raises the exception
\* stored in the future, which leaves finish() and the handler at once.
\* self.monitor_thread = None drops the last reference to the future: its
\* result is kept in no state from here on.
finish_result ==
    LET t == monitor_thread IN
    /\ cpc = "result"
    /\ Finished(t)
    /\ cpc' = "idle"
    /\ fetched' = [fetched EXCEPT ![t] = @ + 1]
    /\ IF tpc[t] = "raised"
       THEN /\ ev' = Return(ev, "raise", 0)
            /\ UNCHANGED <<monitor, executor, now, seen>>
       ELSE /\ \E clock \in now..MaxClock :
                 /\ now' = clock
                 /\ time_stamps' = AppendTime(time_stamps, clock)
            /\ mem_stats' = AppendStat(mem_stats, max_usage[t])
            /\ ev' = ReturnOf(ev, IF ev.op = "finish" THEN "value" ELSE "none",
                              max_usage[t], seen[t])
            /\ seen' = [seen EXCEPT ![t] = {}]
            /\ UNCHANGED interval
            /\ IF ev.op \in PreOps
               THEN StartBody
               ELSE /\ monitor_thread' = None
                    /\ UNCHANGED <<keep_measuring, work_queue, submitted, tpc>>
            /\ max_usage' = [max_usage EXCEPT ![t] = 0]

\* self.interval = 1 / (10 ** power)
set_interval(power) ==
    /\ cpc = "idle"
    /\ interval' = Interval(power)
    /\ ev' = Return(Call("set_interval", TRUE), "none", 0)
    /\ UNCHANGED <<keep_measuring, monitor_thread, time_stamps, mem_stats,
                   executor, now, cpc, history>>

\* a call of is_measuring() by the caller
is_measuring_call ==
    /\ cpc = "idle"
    /\ ev' = Return(Call("is_measuring", TRUE),
                    IF is_measuring THEN "true" ELSE "false", 0)
    /\ UNCHANGED <<monitor, executor, now, cpc, history>>

\* ---- MemTracerOpHook ------------------------------------------------------
\* mutant: the handlers act whatever module.training is
TrainingIgnored(module_training) == TRUE

\* mutant: the handlers take every module for one in evaluation mode
TrainingNever(module_training) == FALSE

\* if module.training:
Training(module_training) == module_training

\* if module.training:
\*     if self.async_mem_monitor.is_measuring(): self.async_mem_monitor.finish()
\*     self.async_mem_monitor.start()
PreExec(op, training) ==
    /\ cpc = "idle"
    /\ IF Training(training)
       THEN /\ submitted < MaxTasks
            /\ IF is_measuring
               THEN FinishCall(Call(op, training), "none")
               ELSE /\ StartBody
                    /\ ev' = Return(Call(op, training), "none", 0)
                    /\ UNCHANGED <<interval, time_stamps, mem_stats,
                                   max_usage, now, cpc, history>>
       ELSE /\ ev' = Return(Call(op, training), "none", 0)
            /\ UNCHANGED <<monitor, executor, now, cpc, history>>

pre_fwd_exec(training) == PreExec("pre_fwd_exec", training)

pre_bwd_exec(training) == PreExec("pre_bwd_exec", training)

\* if module.training: self.async_mem_monitor.finish()
post_fwd_exec(training) ==
    /\ cpc = "idle"
    /\ IF Training(training)
       THEN FinishCall(Call("post_fwd_exec", training), "none")
       ELSE /\ ev' = Return(Call("post_fwd_exec", training), "none", 0)
            /\ UNCHANGED <<monitor, executor, now, cpc, history>>

\* if module.training:
\*     if self.async_mem_monitor.is_measuring(): self.async_mem_monitor.finish()
post_bwd_exec(training) ==
    /\ cpc = "idle"
    /\ IF Training(training) /\ is_measuring
       THEN FinishCall(Call("post_bwd_exec", training), "none")
       ELSE /\ ev' = Return(Call("post_bwd_exec", training), "none", 0)
            /\ UNCHANGED <<monitor, executor, now, cpc, history>>

\* post_iter(self) takes no module: training is the state of the host's
\* model when the hook fires, which the handler cannot read
\* if self.async_mem_monitor.is_measuring(): self.async_mem_monitor.finish()
post_iter(training) ==
    /\ cpc = "idle"
    /\ IF is_measuring
       THEN FinishCall(Call("post_iter", training), "none")
       ELSE /\ ev' = Return(Call("post_iter", training), "none", 0)
            /\ UNCHANGED <<monitor, executor, now, cpc, history>>

\* [elem - start_timestamp for elem in ...]
Shift(s, m) == [i \in 1..Len(s) |-> s[i] - m]

\* mutant: min() of an empty list is taken to be 0 and the call returns
EmptyMinDefault == "none"

\* min() of an empty list raises ValueError
EmptyMin == "raise"

\* the first min() is called before anything is assigned, the second one
\* after time_stamps has been rewritten
show_mem_stats ==
    /\ cpc = "idle"
    /\ IF time_stamps = <<>>
       THEN /\ ev' = Return(Call("show_mem_stats", TRUE), EmptyMin, 0)
            /\ UNCHANGED <<time_stamps, mem_stats>>
       ELSE /\ time_stamps' = Shift(time_stamps, SeqMin(time_stamps))
            /\ IF mem_stats = <<>>
               THEN /\ ev' = Return(Call("show_mem_stats", TRUE), EmptyMin, 0)
                    /\ UNCHANGED mem_stats
               ELSE /\ ev' = Return(Call("show_mem_stats", TRUE), "none", 0)
                    /\ mem_stats' = Shift(mem_stats, SeqMin(mem_stats))
    /\ UNCHANGED <<keep_measuring, monitor_thread, interval, executor, now,
                   cpc, history>>

\* save_results(filename) -> save(filename): pickle.dump(self.state_dict(), f)
state_dict == [time_stamps |-> time_stamps, mem_stats |-> mem_stats]

save_results ==
    /\ cpc = "idle"
    /\ DOMAIN state_dict = {"time_stamps", "mem_stats"}
    /\ ev' = Return(Call("save_results", TRUE), "none", 0)
    /\ UNCHANGED <<monitor, executor, now, cpc, history>>

\* ---- the system -----------------------------------------------------------
Next ==
    \/ start
    \/ finish
    \/ finish_result
    \/ \E power \in 0..MaxPower : set_interval(power)
    \/ is_measuring_call
    \/ \E training \in BOOLEAN : pre_fwd_exec(training)
    \/ \E training \in BOOLEAN : post_fwd_exec(training)
    \/ \E training \in BOOLEAN : pre_bwd_exec(training)
    \/ \E training \in BOOLEAN : post_bwd_exec(training)
    \/ \E training \in BOOLEAN : post_iter(training)
    \/ show_mem_stats
    \/ save_results
    \/ \E t \in Tasks : worker_run(t)
    \/ \E t \in Tasks : measure_check(t)
    \/ \E t \in Tasks : measure_sample(t)
    \/ \E t \in Tasks : measure_raise(t)

Spec == Init /\ [][Next]_vars

TypeOK ==
    /\ keep_measuring \in BOOLEAN
    /\ monitor_thread \in 0..MaxTasks
    /\ submitted \in 0..MaxTasks
    /\ Len(time_stamps) <= MaxTasks
    /\ cpc \in {"idle", "result"}
    /\ \A t \in Tasks : max_usage[t] \in Usages

\* ---- claims ---------------------------------------------------------------
Handlers == {"pre_fwd_exec", "post_fwd_exec", "pre_bwd_exec", "post_bwd_exec",
             "post_iter"}

Returned(op) == ev.op = op /\ ev.out # "pending"

\* C1: when finish() called on a Measuring monitor returns a value, the task
\* of the session (the future held in monitor_thread at the call) has
\* terminated, and the value is the maximum of 0 and every value the provider
\* returned to that task.
C1_FinishReturnsMax ==
    (ev.op = "finish" /\ ev.meas0 /\ ev.out = "value")
        => /\ tpc[ev.task0] = "done"
           /\ ev.val = SetMax(ev.got \cup {0})

\* a finish() has returned the maximum of a session whose task was given
\* both a larger and a smaller value
C1_Witness ==
    /\ ev.op = "finish" /\ ev.meas0 /\ ev.out = "value"
    /\ ev.got = {0, 1}
    /\ ev.val = 1

\* C2: start() called while Measuring appends exactly one entry, the maximum
\* of the stale session, and leaves a normal new session open, as finish()
\* followed by start() would.
C2_StartClosesStaleSession ==
    (Returned("start") /\ ev.meas0)
        => /\ Len(time_stamps) = ev.len0 + 1
           /\ Len(mem_stats) = ev.len0 + 1
           /\ keep_measuring
           /\ Live = {monitor_thread}

\* C3: at most one background sampling task, running or queued, exists in
\* every reachable state.
C3_AtMostOneTask == Cardinality(Live) <= 1

\* C4: a provider fault raised inside a background task is never dropped:
\* it has been reported by a finish(), or the task is still the one the
\* closing finish() will join.
C4_FaultNeverDropped ==
    \A t \in Tasks :
        tpc[t] = "raised"
            => \/ fetched[t] >= 1
               \/ (monitor_thread = t /\ (keep_measuring \/ cpc = "result"))

\* C5: finish() called on an Idle monitor returns 0 without blocking, appends
\* nothing, leaves the monitor Idle and submits nothing to the executor.
C5_IdleFinish ==
    (ev.op = "finish" /\ ~ev.meas0)
        => /\ ev.out = "value" /\ ev.val = 0
           /\ cpc = "idle"
           /\ time_stamps = ev.ts0 /\ mem_stats = ev.ms0
           /\ ~keep_measuring
           /\ monitor_thread = ev.task0
           /\ submitted = ev.sub0

\* finish() has returned on a monitor that is Idle after a completed
\* session
C5_Witness ==
    /\ ev.op = "finish" /\ ~ev.meas0 /\ ev.out = "value"
    /\ ev.len0 >= 1

\* the operation closed no session whose task raised a provider fault
NoFault == ev.meas0 => tpc[ev.task0] # "raised"

C7_EqualLength == cpc = "idle" => Len(time_stamps) = Len(mem_stats)

\* a finish() has just reported a provider fault on a series that has
\* entries
C7_Witness ==
    /\ Returned("finish") /\ ev.out = "raise"
    /\ Len(time_stamps) >= 1
    /\ cpc = "idle"

PreReturned == ev.op \in PreOps /\ ev.training /\ ev.out # "pending"

\* what a pre handler leaves behind: a Measuring monitor with exactly one
\* background task, the one just submitted; called on an Idle monitor the
\* series is as before, called on a Measuring one the stale task has
\* terminated and one entry with its maximum has been appended
PreEffect ==
    /\ keep_measuring
    /\ submitted = ev.sub0 + 1
    /\ monitor_thread = submitted
    /\ Live = {monitor_thread}
    /\ tpc[monitor_thread] = "queued"
    /\ IF ev.meas0
       THEN /\ tpc[ev.task0] = "done"
            /\ Len(time_stamps) = ev.len0 + 1
            /\ SubSeq(time_stamps, 1, ev.len0) = ev.ts0
            /\ mem_stats = Append(ev.ms0, SetMax(ev.got \cup {0}))
       ELSE /\ time_stamps = ev.ts0
            /\ mem_stats = ev.ms0

PostReturned ==
    /\ ev.out # "pending"
    /\ \/ ev.op \in {"post_fwd_exec", "post_bwd_exec"} /\ ev.training
       \/ ev.op = "post_iter"

NoOp ==
    /\ ev.out = "none"
    /\ cpc = "idle"
    /\ keep_measuring = ev.meas0
    /\ monitor_thread = ev.task0
    /\ submitted = ev.sub0
    /\ time_stamps = ev.ts0
    /\ mem_stats = ev.ms0

\* C10 as stated: each of the five handlers invoked while training is not
\* active is a no-op, also when a session is open.
C10_NotTrainingNoOp == (ev.op \in Handlers /\ ~ev.training) => NoOp

\* C10 amended: each of the four phase handlers (pre/post forward, pre/post
\* backward) invoked while training is not active is a no-op, also when a
\* session is open.
C10_NotTrainingNoOpPhase ==
    (ev.op \in Handlers \ {"post_iter"} /\ ~ev.training) => NoOp

\* a pre handler was invoked without training while a session was open
C10_Witness ==
    /\ ev.op = "pre_bwd_exec" /\ ~ev.training /\ ev.meas0
    /\ ev.out = "none"

\* ---- C11: the sequencer alone, provider never raising ----------------------
\* the caller fires boundary events only, each with its own training flag
SeqNext ==
    \/ \E training \in BOOLEAN : pre_fwd_exec(training)
    \/ \E training \in BOOLEAN : post_fwd_exec(training)
    \/ \E training \in BOOLEAN : pre_bwd_exec(training)
    \/ \E training \in BOOLEAN : post_bwd_exec(training)
    \/ \E training \in BOOLEAN : post_iter(training)
    \/ finish_result
    \/ \E t \in Tasks : worker_run(t)
    \/ \E t \in Tasks : measure_check(t)
    \/ \E t \in Tasks : measure_sample(t)

SeqSpec == Init /\ [][SeqNext]_vars

\* C11: between boundary events at most one session is active and every
\* session opened has been recorded exactly once: the number of entries is
\* the number of tasks spawned, less one while the monitor is Measuring.
C11_SessionsRecordedOnce ==
    cpc = "idle"
        => /\ Cardinality(Live) <= 1
           /\ Len(time_stamps) = submitted - (IF keep_measuring THEN 1 ELSE 0)
           /\ Len(mem_stats) = Len(time_stamps)

\* a pre handler has closed a stale session and opened the second one
C11_Witness ==
    /\ cpc = "idle"
    /\ ev.op \in PreOps /\ ev.meas0 /\ ev.out = "none"
    /\ submitted = 2 /\ Len(time_stamps) = 1 /\ keep_measuring

\* ---- C12, C13: show_mem_stats ----------------------------------------------
\* the least element of a sequence that is not empty
LeastOf(s) ==
    CHOOSE m \in {s[i] : i \in 1..Len(s)} : \A i \in 1..Len(s) : m <= s[i]

\* s with d subtracted from every entry, in the same order
Offset(s, d, r) ==
    /\ Len(r) = Len(s)
    /\ \A i \in 1..Len(s) : r[i] = s[i] - d

\* C12: show_mem_stats on a series that is not empty replaces every time
\* stamp t by t - min(time stamps) and every usage u by u - min(usages),
\* the minima being those of the series before the call; length and order
\* are kept.  [5,8,10], [200,150,300] become [0,3,5], [50,0,150].
C12_Normalize ==
    /\ (ev.op = "show_mem_stats" /\ ev.len0 >= 1)
          => /\ ev.out = "none"
             /\ Offset(ev.ts0, LeastOf(ev.ts0), time_stamps)
             /\ Offset(ev.ms0, LeastOf(ev.ms0), mem_stats)
    /\ Shift(<<5, 8, 10>>, SeqMin(<<5, 8, 10>>)) = <<0, 3, 5>>
    /\ Shift(<<200, 150, 300>>, SeqMin(<<200, 150, 300>>)) = <<50, 0, 150>>

\* show_mem_stats has rewritten a series of two sessions whose time stamps
\* differ and whose least usage is not 0
C12_Witness ==
    /\ ev.op = "show_mem_stats" /\ ev.out = "none"
    /\ ev.ts0 = <<0, 1>>
    /\ ev.ms0 = <<1, 1>>
    /\ mem_stats = <<0, 0>>

\* C13: show_mem_stats on an empty series raises: it does not return, it
\* leaves both sequences empty and the monitor's state as it was.
C13_NormalizeEmpty ==
    (ev.op = "show_mem_stats" /\ ev.len0 = 0)
        => /\ ev.out = "raise"
           /\ time_stamps = <<>> /\ mem_stats = <<>>
           /\ keep_measuring = ev.meas0
           /\ monitor_thread = ev.task0
           /\ submitted = ev.sub0
           /\ cpc = "idle"

\* show_mem_stats has raised on an empty series while a session was open
C13_Witness ==
    /\ ev.op = "show_mem_stats" /\ ev.len0 = 0 /\ ev.out = "raise"
    /\ ev.meas0

\* ---- C14: is_measuring, set_interval, save_results -------------------------
QueryOps == {"is_measuring", "set_interval", "save_results"}

\* C14: a call of is_measuring(), set_interval(power) or save_results(file)
\* leaves the flag, the future, both sequences, the executor's queue and
\* every task where they were, on an Idle monitor and on a Measuring one;
\* is_measuring() returns the flag, so calls with no start/finish between
\* them return the same value.
C14_QueriesChangeNothing ==
    [][ev'.op \in QueryOps
          => /\ UNCHANGED <<keep_measuring, monitor_thread, time_stamps,
                            mem_stats, executor, cpc>>
             /\ ev'.out # "pending"
             /\ ev'.op = "is_measuring"
                   => /\ ev'.out = (IF keep_measuring THEN "true" ELSE "false")
                      /\ ev.op = "is_measuring" => ev'.out = ev.out]_vars

\* set_interval has returned while a session was open and its task was
\* about to sample
C14_Witness ==
    /\ ev.op = "set_interval" /\ ev.meas0
    /\ \E t \in Tasks : tpc[t] = "sample"
    /\ keep_measuring

\* ---- C15: the monitor alone, provider always returning a value -------------
\* the caller calls start() and finish() only
MonNext ==
    \/ start
    \/ finish
    \/ finish_result
    \/ \E t \in Tasks : worker_run(t)
    \/ \E t \in Tasks : measure_check(t)
    \/ \E t \in Tasks : measure_sample(t)

\* the worker is a thread of its own and goes on whenever it can; the
\* caller blocked in result() goes on once the future is done
Fairness ==
    /\ \A t \in Tasks : WF_vars(worker_run(t))
    /\ \A t \in Tasks : WF_vars(measure_check(t))
    /\ \A t \in Tasks : WF_vars(measure_sample(t))
    /\ WF_vars(finish_result)

FairSpec == Init /\ [][MonNext]_vars /\ Fairness

\* C15: every finish() called on a Measuring monitor returns in the end and
\* leaves the monitor Idle; start() can be taken whenever the caller is
\* between operations, whatever the worker is doing.
C15_FinishReturns ==
    /\ [](cpc = "idle" /\ submitted < MaxTasks => ENABLED start)
    /\ (cpc = "result")
          ~> (cpc = "idle" /\ ev.op = "finish" /\ ev.out = "value"
                /\ ~keep_measuring)

\* the second finish() has returned, closing a session whose task sampled
C15_Witness ==
    /\ ev.op = "finish" /\ ev.meas0 /\ ev.out = "value"
    /\ ev.task0 = 2
    /\ ev.got # {}
    /\ ~keep_measuring

\* ---- C16: cooperative cancellation ----------------------------------------
\* C16: after finish() has cleared the flag the worker makes at most one
\* more provider call, that of the iteration already past its test, and no
\* task enters an iteration once it has read the cleared flag.
C16_BoundedCancellation ==
    /\ [](/\ ev.late <= 1
          /\ (ev.out = "pending" /\ ev.late = 1)
                => \A t \in Tasks : tpc[t] # "sample")
    /\ [][\A t \in Tasks :
            (tpc[t] = "check" /\ ~keep_measuring) => tpc'[t] # "sample"]_vars

\* a finish() has returned after the task sampled once more with the flag
\* already cleared
C16_Witness ==
    /\ ev.op = "finish" /\ ev.out = "value"
    /\ ev.late = 1
    /\ tpc[ev.task0] = "done"

\* ---- C17: hand-over of the result ------------------------------------------
\* C17: the outcome of every task start() has spawned is fetched by exactly
\* one finish(): never twice, and a task not fetched yet is the one the
\* monitor still holds for the finish() to come.
C17_ResultFetchedOnce ==
    \A t \in 1..submitted :
        /\ fetched[t] <= 1
        /\ fetched[t] = 0 => monitor_thread = t

\* ---- C18: order of the series ----------------------------------------------
NonDecreasing(s) == \A i \in 1..Len(s) : \A j \in i..Len(s) : s[i] <= s[j]

\* one entry was put behind the entries of s, which are as they were
GrewByOne(s, r) == Len(r) = Len(s) + 1 /\ SubSeq(r, 1, Len(s)) = s

\* r has the entries of s in the same order, all moved by the same amount
Moved(s, r) ==
    /\ Len(r) = Len(s)
    /\ \A i \in 1..Len(s) : \A j \in 1..Len(s) : r[i] - r[j] = s[i] - s[j]

\* sessions whose finish() has returned a value
Recorded == {t \in Tasks : fetched[t] >= 1 /\ tpc[t] = "done"}

\* sessions a finish() has closed, with a value or with the provider's fault
Closed == {t \in Tasks : fetched[t] >= 1}

\* entries are only ever added at the end, by a finish(), or all moved
\* together by show_mem_stats
SeriesStep ==
    \/ UNCHANGED <<time_stamps, mem_stats>>
    \/ /\ cpc = "result" /\ cpc' = "idle"
       /\ GrewByOne(time_stamps, time_stamps')
       /\ GrewByOne(mem_stats, mem_stats')
       /\ mem_stats'[Len(mem_stats')] = ev'.val
    \/ /\ ev'.op = "show_mem_stats"
       /\ Moved(time_stamps, time_stamps')
       /\ Moved(mem_stats, mem_stats')

\* C18: the k-th entry is the one appended by the k-th finish() that closed
\* a Measuring session; entries are never reordered or removed; the time
\* stamps are non-decreasing in index order, also for sessions recorded
\* after show_mem_stats.
C18_CompletionOrder ==
    /\ [](/\ NonDecreasing(time_stamps)
          /\ Len(time_stamps) = Cardinality(Closed)
          /\ Len(mem_stats) = Cardinality(Closed))
    /\ [][SeriesStep]_vars

\* C18 (amended): the k-th entry is the one appended by the k-th finish()
\* that closed a Measuring session and returned its maximum; entries are
\* never reordered or removed; the time stamps are non-decreasing in index
\* order, also for sessions recorded after show_mem_stats.
C18_CompletionOrderNoFault ==
    /\ [](/\ NonDecreasing(time_stamps)
          /\ Len(time_stamps) = Cardinality(Recorded)
          /\ Len(mem_stats) = Cardinality(Recorded))
    /\ [][SeriesStep]_vars

\* the second session has been recorded behind the first, at a later time
C18_Witness ==
    /\ ev.op = "finish" /\ ev.out = "value" /\ ev.len0 = 1
    /\ time_stamps = <<0, 1>>
    /\ mem_stats = <<1, 0>>

\* ---- C19: a finish() that reports a provider fault -------------------------
\* a task whose fault a finish() has reported
Reported(t) == tpc[t] = "raised" /\ fetched[t] >= 1

\* C19: a finish() that raises the provider's fault appends nothing and
\* leaves the monitor Idle; a further finish() returns 0; a later start()
\* and finish() run a session of their own, which returns its maximum and
\* appends one entry.
C19_FaultClosesSession ==
    /\ (ev.op = "finish" /\ ev.out = "raise")
          => /\ time_stamps = ev.ts0 /\ mem_stats = ev.ms0
             /\ ~keep_measuring
             /\ cpc = "idle"
             /\ Reported(ev.task0)
    /\ (ev.op = "finish" /\ ~ev.meas0 /\ ev.task0 # None)
          => /\ ev.out = "value" /\ ev.val = 0
             /\ time_stamps = ev.ts0 /\ mem_stats = ev.ms0
    /\ (ev.op = "finish" /\ ev.meas0 /\ ev.out = "value"
          /\ \E t \in Tasks : t < ev.task0 /\ Reported(t))
          => /\ ev.val = SetMax(ev.got \cup {0})
             /\ time_stamps = Append(ev.ts0, now)
             /\ mem_stats = Append(ev.ms0, ev.val)
             /\ ~keep_measuring

\* after a finish() that reported a fault, the next session has returned
\* its own maximum
C19_Witness ==
    /\ ev.op = "finish" /\ ev.meas0 /\ ev.out = "value"
    /\ ev.task0 = 2 /\ Reported(1)
    /\ ev.val = 1
    /\ Len(mem_stats) = 1

\* ---- C20: no task outlives its session -------------------------------------
\* C20: whenever the monitor is Idle between caller operations no task is
\* queued or running: every task spawned before has terminated.
C20_IdleMeansNoTask ==
    (cpc = "idle" /\ ~keep_measuring)
        => /\ Live = {}
           /\ work_queue = <<>>
           /\ \A t \in 1..submitted : Finished(t)

\* the monitor is Idle after start(), start(), finish(): the task of the
\* first start(), which no finish() joined, has terminated too
C20_Witness ==
    /\ cpc = "idle" /\ ~keep_measuring
    /\ ev.op = "finish" /\ ev.out = "value"
    /\ submitted = 2
    /\ fetched[1] = 0 /\ tpc[1] = "done"

====
